---- MODULE Spec2Model ----
(***************************************************************************)
(* A model of go-httpclient's HttpClient (httpclient.go, v0.3.9): the      *)
(* per-address connection cache, the request->connection registry, the     *)
(* RoundTripper hook with its wire exchange, and the Do / GetConn /        *)
(* FinishRequest facade, driven by one caller.  The network, the server    *)
(* and the standard library's http.Client are the environment: every hop   *)
(* of a Do draws its dial, handshake, write and response outcome from a    *)
(* small set.                                                              *)
(*                                                                         *)
(* The later variant of the same client (v0.4.0, kept in                   *)
(* httpclient_test.go) is modelled next to it: a Transport with a queue of *)
(* request deadlines, a background worker that cancels the requests whose  *)
(* deadline has passed, and Close, which stops the worker over exitChan.   *)
(***************************************************************************)
EXTENDS Integers, Sequences, FiniteSets, TLC

(***************************************************************************)
(* Bounds of the model.                                                    *)
(***************************************************************************)
MaxRounds == 2      \* RoundTrip calls the caller's Do calls may add up to
MaxTakes == 3       \* RoundTrip calls of the client whose connections are reused
MaxTrips == 2       \* requests dispatched through one Transport
MaxClock == 3       \* the Transport's clock runs from 0 to MaxClock

(***************************************************************************)
(* Values.                                                                 *)
(***************************************************************************)
NilConn == 0        \* "var c net.Conn": the nil connection
NoReq == 0          \* the request of a nil response

DefaultReadWriteTimeout == 5    \* New: ReadWriteTimeout: 5 * time.Second
DefaultMaxConnsPerHost == 5     \* New: MaxConnsPerHost: 5

UserRequests ==     \* the requests the caller has built with http.NewRequest
  << [Host |-> <<"a">>, Scheme |-> <<"http">>, Close |-> FALSE],
     [Host |-> <<"a", ":", "80">>, Scheme |-> <<"https">>, Close |-> TRUE] >>
Timeouts == {1, 3}          \* the values the caller gives h.ReadWriteTimeout
Delays == {0, 2}            \* how long a server takes to answer
MaxConnsChoices == {0, 1, DefaultMaxConnsPerHost}   \* ... and h.MaxConnsPerHost
Locations == {"rel", "abs"}
AbsLocation == [Host |-> <<"a">>, Scheme |-> <<"https">>]

ErrNil == "nil"
ErrTooMany == "too many outstanding conns on this addr"
ErrNotInMap == "connection not in map"
ErrAddrNotCached == "addr %s not in cache map"
ErrRedirects == "Stopped after 3 redirects"
ErrDial == "dial"
ErrHandshake == "handshake"
ErrWrite == "write"
ErrRead == "read"
ErrTimeout == "timeout"

VARIABLES
  cachedConns,       \* h.cachedConns: addr -> [dl, outstanding]
  connMap,           \* h.connMap: request -> [Conn, shouldClose]
  ReadWriteTimeout,  \* h.ReadWriteTimeout
  MaxConnsPerHost,   \* h.MaxConnsPerHost
  reqs,              \* the request objects: reqs[r] = [Host, Scheme, Close]
  closed,            \* connections on which Close() was called
  deadline,          \* deadline[c]: the absolute deadline set on connection c (0: none yet);
                     \* the connections dialed so far are 1..Len(deadline)
  now,               \* the clock
  lc,                \* lc[r]: the last facade call made for r and how it ended
  failedConns,       \* connections whose wire exchange returned an I/O error
  call,              \* the Do in progress between two redirect hops: its request, the request
                     \* of its next hop and the via list of the http.Client
  rounds,            \* the number of RoundTrip calls made so far
  sawTimeout,        \* "yes": an exchange has run into its deadline; "then_ok": and a later Do
                     \* returned without error
  fins,              \* fins[p]: where caller p is in h.FinishRequest, with the request and
                     \* the connection GetConn gave it
  RequestTimeout,    \* t.RequestTimeout
  starter,           \* t.starter: whether its Do has been done, and how many times lazyStart
                     \* has run
  exitChan,          \* t.exitChan: "nil", "open" or "closed"
  requests,          \* t.requests: the items in the deadline queue
  wk,                \* the worker goroutine: where it is, the time of its tick, the item it
                     \* has taken from the queue; n: the worker goroutines started
  closers,           \* closers[c]: where caller c is in t.Close()
  trips,             \* trips[r]: where t.RoundTrip(r) is, its item, and the time at which it
                     \* was dispatched
  clock,             \* time.Now() of the Transport
  cancelled          \* the requests t.transport.CancelRequest was called for

hcVars == << cachedConns, connMap, ReadWriteTimeout, MaxConnsPerHost, reqs,
             closed, deadline, now, lc, failedConns, call, rounds, sawTimeout, fins >>

trVars == << RequestTimeout, starter, exitChan, requests, wk, closers, trips, clock,
             cancelled >>

vars == << hcVars, trVars >>

(***************************************************************************)
(* strings.HasPrefix(scheme, "hc_"), scheme[3:], "hc_" + scheme.  A scheme *)
(* is a sequence of tokens; the marker "hc_" is one token.                 *)
(***************************************************************************)
HasPrefixHc(s) == Len(s) > 0 /\ s[1] = "hc_"
StripHc(s) == IF HasPrefixHc(s) THEN Tail(s) ELSE s
AddHc(s) == <<"hc_">> \o s

(***************************************************************************)
(* strings.LastIndex: the greatest index of tok in s, -1 when absent       *)
(* (indices from 0, as in Go).                                             *)
(***************************************************************************)
LastIndex(s, tok) ==
  LET I == { i \in 1..Len(s) : s[i] = tok }
  IN IF I = {} THEN -1 ELSE (CHOOSE i \in I : \A j \in I : j <= i) - 1

hasPort(s) == LastIndex(s, ":") > LastIndex(s, "]")

(***************************************************************************)
(* canonicalAddr: the host with the port of its scheme when it has none.   *)
(* canonicalAddrPlain knows the schemes only without the marker.           *)
(***************************************************************************)
canonicalAddrPlain(s, scheme) ==
  IF ~hasPort(s)
  THEN CASE scheme = <<"http">> -> s \o <<":", "80">>
         [] scheme = <<"https">> -> s \o <<":", "443">>
         [] OTHER -> s
  ELSE s

canonicalAddr(s, scheme) ==
  IF ~hasPort(s)
  THEN CASE scheme \in { <<"http">>, <<"hc_", "http">> } -> s \o <<":", "80">>
         [] scheme \in { <<"https">>, <<"hc_", "https">> } -> s \o <<":", "443">>
         [] OTHER -> s
  ELSE s

(***************************************************************************)
(* A policy that gives up one redirect early.                              *)
(***************************************************************************)
RedirectPolicyOffByOne(req, via) ==
  IF Len(via) > 2 THEN ErrRedirects ELSE ErrNil

DefaultRedirectPolicy(req, via) ==
  IF Len(via) > 3 THEN ErrRedirects ELSE ErrNil

(***************************************************************************)
(* Go maps: insert or overwrite, delete.                                   *)
(***************************************************************************)
Put(f, k, v) == [x \in DOMAIN f \cup {k} |-> IF x = k THEN v ELSE f[x]]
Del(f, k) == [x \in DOMAIN f \ {k} |-> f[x]]

(***************************************************************************)
(* The HttpClient object and the connections it acts on, as one value the  *)
(* operators below thread through a call.  failed is an observation: the   *)
(* connections whose exchange returned an I/O error.                       *)
(***************************************************************************)
World ==
  [cachedConns |-> cachedConns, connMap |-> connMap, reqs |-> reqs, closed |-> closed,
   deadline |-> deadline, now |-> now, failed |-> failedConns]

NoResp == [kind |-> "none", Close |-> FALSE, Request |-> NoReq, loc |-> "rel"]

(***************************************************************************)
(* checkConnCache: pop the front idle connection of addr if there is one,  *)
(* register addr if it is new, then refuse when outstanding exceeds the    *)
(* maximum.                                                                *)
(***************************************************************************)
TooManyOutstanding(outstanding, max) == outstanding > max

checkConnCache(h, addr) ==
  LET ok == addr \in DOMAIN h.cachedConns
      cc0 == IF ok THEN h.cachedConns[addr] ELSE [dl |-> <<>>, outstanding |-> 0]
      hit == ok /\ Len(cc0.dl) > 0
      c == IF hit THEN Head(cc0.dl) ELSE NilConn
      cc == IF hit THEN [cc0 EXCEPT !.dl = Tail(@)] ELSE cc0
      h1 == [h EXCEPT !.cachedConns = Put(@, addr, cc)]
  IN IF TooManyOutstanding(cc.outstanding, MaxConnsPerHost)
     THEN [h |-> h1, c |-> NilConn, err |-> ErrTooMany]
     ELSE [h |-> h1, c |-> c, err |-> ErrNil]

(***************************************************************************)
(* cacheConn: push conn at the back of addr's idle list.  The outstanding  *)
(* counter is left alone; cacheConnCounting counts it down.                *)
(***************************************************************************)
PushBack(dl, conn) == Append(dl, conn)

cacheConnCounting(h, addr, conn) ==
  IF addr \notin DOMAIN h.cachedConns
  THEN [h |-> h, err |-> ErrAddrNotCached]
  ELSE [h |-> [h EXCEPT !.cachedConns[addr].dl = PushBack(@, conn),
                        !.cachedConns[addr].outstanding = @ - 1], err |-> ErrNil]

cacheConn(h, addr, conn) ==
  IF addr \notin DOMAIN h.cachedConns
  THEN [h |-> h, err |-> ErrAddrNotCached]
  ELSE [h |-> [h EXCEPT !.cachedConns[addr].dl = PushBack(@, conn)], err |-> ErrNil]

(***************************************************************************)
(* GetConn: the registry lookup.                                           *)
(***************************************************************************)
NoBinding == [Conn |-> NilConn, shouldClose |-> FALSE]

GetConn(h, req) ==
  IF req \notin DOMAIN h.connMap
  THEN [conn |-> NoBinding, err |-> ErrNotInMap]
  ELSE [conn |-> h.connMap[req], err |-> ErrNil]

(***************************************************************************)
(* exec: set the deadline, write the request, read the response head.      *)
(* in is what the network does to this exchange: in.fault = "write" fails  *)
(* the write; otherwise the response head (in.resp: "ok", "redirect" or a  *)
(* "bad" one that ReadResponse rejects) arrives in.delay after the start,  *)
(* and the read fails once the connection's deadline has passed.           *)
(***************************************************************************)
(***************************************************************************)
(* An exec that sets the deadline only on a connection that has none yet.  *)
(***************************************************************************)
execDeadlineOnce(h, conn) ==
  IF h.deadline[conn] # 0 THEN h.deadline[conn] ELSE h.now + ReadWriteTimeout

execDeadline(h, conn) == h.now + ReadWriteTimeout

execWriteFailed(h, conn, req) == [h EXCEPT !.failed = @ \cup {conn}]

execReadFailed(h, conn, req, t) ==
  [h EXCEPT !.connMap = Del(@, req), !.closed = @ \cup {conn},
            !.now = t, !.failed = @ \cup {conn}]

exec(h, conn, req, in) ==
  LET h1 == [h EXCEPT !.deadline[conn] = execDeadline(h, conn)]
      arrival == h.now + in.delay
      during == GetConn(h1, req)
  IN IF in.fault = "write"
     THEN [h |-> execWriteFailed(h1, conn, req), resp |-> NoResp, err |-> ErrWrite,
           during |-> during]
     ELSE IF arrival > h1.deadline[conn]
     THEN [h |-> execReadFailed(h1, conn, req, h1.deadline[conn]), resp |-> NoResp,
           err |-> ErrTimeout, during |-> during]
     ELSE IF in.resp = "bad"
     THEN [h |-> execReadFailed(h1, conn, req, arrival), resp |-> NoResp, err |-> ErrRead,
           during |-> during]
     ELSE [h |-> [h1 EXCEPT !.now = arrival],
           resp |-> [kind |-> in.resp, Close |-> in.close, Request |-> req, loc |-> in.loc],
           err |-> ErrNil, during |-> during]

(***************************************************************************)
(* RoundTrip: take from the cache or dial (and handshake for hc_https),    *)
(* bind the request to the connection, run the exchange.  The result also  *)
(* reports the request, the connection used, whether it came from the      *)
(* cache, whether the exchange was run (wired) and what GetConn(req) gives *)
(* while it runs.  bindSkipped leaves the registry as it is.               *)
(***************************************************************************)
bindSkipped(h, req, c) == h

bind(h, req, c) == [h EXCEPT !.connMap = Put(@, req, [Conn |-> c, shouldClose |-> FALSE])]

RoundTrip(h, req, in) ==
  LET addr == canonicalAddr(h.reqs[req].Host, h.reqs[req].Scheme)
      cr == checkConnCache(h, addr)
      fresh == Len(cr.h.deadline) + 1
      hd == [cr.h EXCEPT !.deadline = Append(@, 0)]
      none(hh, e, c) == [h |-> hh, resp |-> NoResp, err |-> e, conn |-> c, req |-> req,
                         reused |-> FALSE, wired |-> FALSE, during |-> GetConn(hh, req)]
      run(hh, c, re) == LET x == exec(bind(hh, req, c), c, req, in)
                        IN [h |-> x.h, resp |-> x.resp, err |-> x.err, conn |-> c, req |-> req,
                            reused |-> re, wired |-> TRUE, during |-> x.during]
  IN IF cr.err # ErrNil THEN none(cr.h, cr.err, NilConn)
     ELSE IF cr.c = NilConn
     THEN IF in.fault = "dial" THEN none(cr.h, ErrDial, NilConn)
          ELSE IF h.reqs[req].Scheme = <<"hc_", "https">> /\ in.fault = "hs"
          THEN none(hd, ErrHandshake, fresh)
          ELSE run(hd, fresh, FALSE)
     ELSE run(cr.h, cr.c, TRUE)

(***************************************************************************)
(* New's redirFunc, installed as the http.Client's CheckRedirect: hide the *)
(* marker from the policy, ask it, put the marker back on the new request. *)
(* seen: the schemes of r and of the requests of v as the policy is        *)
(* called.  redirStripNewOnly is a redirFunc that forgets lastRequest.     *)
(***************************************************************************)
redirStripNewOnly(h, r, v) == [h EXCEPT !.reqs[r].Scheme = StripHc(@)]

redirStrip(h, r, v) ==
  LET lastRequest == v[Len(v)]
      h1 == [h EXCEPT !.reqs[lastRequest].Scheme = StripHc(@)]
  IN [h1 EXCEPT !.reqs[r].Scheme = StripHc(@)]

redirFunc(h, r, v) ==
  LET h2 == redirStrip(h, r, v)
      resp == DefaultRedirectPolicy(r, v)
  IN [h |-> [h2 EXCEPT !.reqs[r].Scheme = AddHc(@)], err |-> resp,
      seen |-> { h2.reqs[x].Scheme : x \in {r} \cup { v[i] : i \in 1..Len(v) } }]


(***************************************************************************)
(* One round of h.client.Do(req): the http.Client sends cur through        *)
(* RoundTrip; on a redirect response it appends cur to via, builds the     *)
(* next request from the Location (a relative one resolves against cur's   *)
(* URL, an absolute one carries its own scheme and host) and asks          *)
(* CheckRedirect.  done: the client returns resp and err to Do; otherwise  *)
(* it goes round with next.  rt: the round's RoundTrip; seen: what the     *)
(* redirect policy saw, if it was asked.                                   *)
(***************************************************************************)
TripOf(rt) == [conn |-> rt.conn, req |-> rt.req, reused |-> rt.reused, err |-> rt.err,
               wired |-> rt.wired, during |-> rt.during]

clientStep(h, cur, via, in) ==
  LET rt == RoundTrip(h, cur, in)
      out(hh, resp, e, dn, nx, v, sn) ==
        [h |-> hh, resp |-> resp, err |-> e, done |-> dn, next |-> nx, via |-> v,
         rt |-> TripOf(rt), seen |-> sn]
  IN IF rt.err # ErrNil THEN out(rt.h, NoResp, rt.err, TRUE, NoReq, via, {})
     ELSE IF rt.resp.kind = "redirect"
     THEN LET via1 == Append(via, cur)
              base == rt.h.reqs[cur]
              url == IF rt.resp.loc = "rel"
                     THEN [Host |-> base.Host, Scheme |-> base.Scheme]
                     ELSE AbsLocation
              r == Len(rt.h.reqs) + 1
              h1 == [rt.h EXCEPT !.reqs = Append(@, [Host |-> url.Host, Scheme |-> url.Scheme,
                                                    Close |-> FALSE])]
              rf == redirFunc(h1, r, via1)
          IN IF rf.err # ErrNil THEN out(rf.h, rt.resp, rf.err, TRUE, r, via1, rf.seen)
             ELSE out(rf.h, rt.resp, ErrNil, FALSE, r, via1, rf.seen)
     ELSE out(rt.h, rt.resp, ErrNil, TRUE, NoReq, via, {})

(***************************************************************************)
(* Do, before h.client.Do: mark the scheme.                                *)
(***************************************************************************)
DoEnter(h, req) ==
  IF ~HasPrefixHc(h.reqs[req].Scheme)
  THEN [h EXCEPT !.reqs[req].Scheme = AddHc(@)]
  ELSE h

(***************************************************************************)
(* Do, after h.client.Do returned resp and err: mark the bound connection  *)
(* of req shouldClose on explicit close semantics, unmark the scheme of    *)
(* the response's request.  panic: the nil dereference at line 233 when    *)
(* GetConn finds no binding.                                               *)
(***************************************************************************)
DoReturn(h, req, resp, err) ==
  LET mark == err = ErrNil /\ (resp.Close \/ h.reqs[req].Close)
      g == GetConn(h, req)
      h1 == IF mark /\ g.err = ErrNil
            THEN [h EXCEPT !.connMap[req].shouldClose = TRUE]
            ELSE h
      h2 == IF resp.kind # "none"
            THEN [h1 EXCEPT !.reqs[resp.Request].Scheme = StripHc(@)]
            ELSE h1
  IN [h |-> h2, panic |-> mark /\ g.err # ErrNil]

(***************************************************************************)
(* FinishRequest: look the binding up, unbind, then close the connection   *)
(* if it is marked shouldClose, else return it to the cache under the      *)
(* request's canonical address.                                            *)
(***************************************************************************)
(***************************************************************************)
(* A FinishRequest that leaves the binding in the registry, and one that   *)
(* forgets to close.                                                       *)
(***************************************************************************)
unbindForgotten(h, req) == h

connCloseForgotten(h, conn) == h

unbind(h, req) == [h EXCEPT !.connMap = Del(@, req)]

connClose(h, conn) == [h EXCEPT !.closed = @ \cup {conn}]

FinishRequest(h, req) ==
  LET g == GetConn(h, req)
      h1 == unbind(h, req)
  IN IF g.err # ErrNil THEN [h |-> h, err |-> g.err]
     ELSE IF g.conn.shouldClose
     THEN [h |-> connClose(h1, g.conn.Conn), err |-> ErrNil]
     ELSE cacheConn(h1, canonicalAddr(h.reqs[req].Host, h.reqs[req].Scheme), g.conn.Conn)

(***************************************************************************)
(* What the network may do to one hop: fail the dial, the handshake or the *)
(* write, or answer after in.delay with a response (final, with or without *)
(* "Connection: close"), a malformed head, or a redirect to a relative or  *)
(* an absolute Location.                                                   *)
(***************************************************************************)
HopInput(f, r, c, l, d) == [fault |-> f, resp |-> r, close |-> c, loc |-> l, delay |-> d]

FaultInputs == { HopInput(f, "ok", FALSE, "rel", 0) : f \in {"dial", "hs", "write"} }
FinalInputs == { HopInput("none", "ok", c, "rel", 0) : c \in BOOLEAN }
                 \cup { HopInput("none", "bad", FALSE, "rel", 0) }
RedirInputs == { HopInput("none", "redirect", FALSE, l, 0) : l \in Locations }
TimedInputs == { HopInput("none", "ok", FALSE, "rel", d) : d \in Delays }
                 \cup { HopInput("write", "ok", FALSE, "rel", 0) }
HopInputs == FaultInputs \cup FinalInputs \cup RedirInputs

IdleOf(cc) == UNION { { cc[a].dl[i] : i \in 1..Len(cc[a].dl) } : a \in DOMAIN cc }
Idle == IdleOf(cachedConns)
Bound == { connMap[r].Conn : r \in DOMAIN connMap }

NoDo == [req |-> NoReq, cur |-> NoReq, via |-> <<>>, active |-> FALSE]

(***************************************************************************)
(* New(), then the caller's configuration and requests.                    *)
(***************************************************************************)
Finishers == {"f1", "f2"}
NoFinish == [pc |-> "idle", req |-> NoReq, conn |-> NoBinding]

RequestTimeouts == {0, 2}
Closers == {"c1", "c2"}
TripRequests == 1..MaxTrips
NoItem == [Value |-> NoReq, Priority |-> 0]

(***************************************************************************)
(* A Transport value before its first use.                                 *)
(***************************************************************************)
NewTransport(rt) ==
  /\ RequestTimeout = rt
  /\ starter = [done |-> FALSE, runs |-> 0]
  /\ exitChan = "nil"
  /\ requests = {}
  /\ wk = [pc |-> "off", now |-> 0, item |-> NoItem, n |-> 0]
  /\ closers = [c \in Closers |-> "idle"]
  /\ trips = [r \in TripRequests |-> [pc |-> "new", item |-> NoItem, at |-> 0]]
  /\ clock = 0
  /\ cancelled = {}

Configured(rwt, max) ==
  /\ NewTransport(0)
  /\ cachedConns = <<>>
  /\ connMap = <<>>
  /\ ReadWriteTimeout = rwt
  /\ MaxConnsPerHost = max
  /\ reqs = UserRequests
  /\ closed = {}
  /\ deadline = <<>>
  /\ now = 0
  /\ lc = [r \in 1..Len(UserRequests) |-> "new"]
  /\ failedConns = {}
  /\ call = NoDo
  /\ rounds = 0
  /\ sawTimeout = "no"
  /\ fins = [p \in Finishers |-> NoFinish]

Init == Configured(DefaultReadWriteTimeout, DefaultMaxConnsPerHost)

(***************************************************************************)
(* The caller sets h.ReadWriteTimeout between requests.                    *)
(***************************************************************************)
SetReadWriteTimeout(t) ==
  /\ ~call.active
  /\ t # ReadWriteTimeout
  /\ ReadWriteTimeout' = t
  /\ UNCHANGED << cachedConns, connMap, MaxConnsPerHost, reqs, closed, deadline, now, lc,
                  failedConns, call, rounds, sawTimeout, fins, trVars >>

(***************************************************************************)
(* The state after one round st of the http.Client inside Do(r): Do        *)
(* returns when the round is the last one.                                 *)
(***************************************************************************)
DoAdvance(r, st) ==
  LET h == IF st.done THEN DoReturn(st.h, r, st.resp, st.err).h ELSE st.h
      n0 == Len(reqs)
  IN /\ cachedConns' = h.cachedConns
     /\ connMap' = h.connMap
     /\ reqs' = h.reqs
     /\ closed' = h.closed
     /\ deadline' = h.deadline
     /\ now' = h.now
     /\ failedConns' = h.failed
     /\ call' = IF st.done THEN NoDo
                ELSE [req |-> r, cur |-> st.next, via |-> st.via, active |-> TRUE]
     /\ lc' = [x \in 1..Len(h.reqs) |->
                 IF x = r THEN (IF ~st.done THEN "inDo"
                                ELSE IF st.err = ErrNil THEN "doOk" ELSE "doErr")
                 ELSE IF x > n0 THEN "hop" ELSE lc[x]]
     /\ sawTimeout' = IF st.rt.err = ErrTimeout THEN "yes"
                      ELSE IF st.done /\ st.err = ErrNil /\ sawTimeout = "yes" THEN "then_ok"
                      ELSE sawTimeout
     /\ rounds' = rounds + 1
     /\ UNCHANGED << ReadWriteTimeout, MaxConnsPerHost, fins, trVars >>

(***************************************************************************)
(* h.Do(r), up to the first response: Do returns unless that is a redirect *)
(* the policy accepts.  The caller dispatches a request only while it has  *)
(* no binding.                                                             *)
(***************************************************************************)
FirstRound(r, in) == clientStep(DoEnter(World, r), r, <<>>, in)

DoCall(r, in) ==
  /\ ~call.active
  /\ r \notin DOMAIN connMap
  /\ rounds < MaxRounds
  /\ DoAdvance(r, FirstRound(r, in))

(***************************************************************************)
(* The next hop of the Do in progress.                                     *)
(***************************************************************************)
NextRound(in) == clientStep(World, call.cur, call.via, in)

DoHop(in) ==
  /\ call.active
  /\ rounds < MaxRounds
  /\ DoAdvance(call.req, NextRound(in))

(***************************************************************************)
(* h.GetConn(r): a lookup under the read lock; nothing changes.            *)
(***************************************************************************)
GetConnCall(r) ==
  /\ ~call.active
  /\ GetConn(World, r).err \in {ErrNil, ErrNotInMap}
  /\ UNCHANGED vars

(***************************************************************************)
(* h.FinishRequest(r).                                                     *)
(***************************************************************************)
FinishRequestCall(r) ==
  LET res == FinishRequest(World, r)
  IN /\ ~call.active
     /\ cachedConns' = res.h.cachedConns
     /\ connMap' = res.h.connMap
     /\ closed' = res.h.closed
     /\ lc' = [lc EXCEPT ![r] = IF @ \in {"fin", "fin2"} THEN "fin2"
                                ELSE IF res.err = ErrNil THEN "fin" ELSE "finErr"]
     /\ UNCHANGED << ReadWriteTimeout, MaxConnsPerHost, reqs, deadline, now, failedConns, call,
                     rounds, sawTimeout, fins, trVars >>

Next ==
  \/ \E r \in 1..Len(reqs), in \in HopInputs : DoCall(r, in)
  \/ \E in \in HopInputs : DoHop(in)
  \/ \E r \in 1..Len(reqs) : GetConnCall(r)
  \/ \E r \in 1..Len(reqs) : FinishRequestCall(r)

Spec == Init /\ [][Next]_vars

(***************************************************************************)
(* Timing: the caller varies h.ReadWriteTimeout (TestHttpClient) and the   *)
(* server takes its time.                                                  *)
(***************************************************************************)
InitTimeout == \E t \in Timeouts : Configured(t, DefaultMaxConnsPerHost)

NextTimeout ==
  \/ \E t \in Timeouts : SetReadWriteTimeout(t)
  \/ \E r \in 1..Len(reqs), in \in TimedInputs : DoCall(r, in)
  \/ \E r \in 1..Len(reqs) : FinishRequestCall(r)

SpecTimeout == InitTimeout /\ [][NextTimeout]_vars

(***************************************************************************)
(* Sequential cycles (TestManyPosts): Do on a fresh request, without       *)
(* redirects, then FinishRequest on it, under any h.MaxConnsPerHost.       *)
(***************************************************************************)
InitLimit == \E m \in MaxConnsChoices : Configured(DefaultReadWriteTimeout, m)

BetweenCycles == \A r \in 1..Len(reqs) : lc[r] \notin {"inDo", "doOk", "doErr"}

CycleDo(r, in) ==
  /\ BetweenCycles
  /\ lc[r] = "new"
  /\ DoCall(r, in)

CycleFinish(r) ==
  /\ lc[r] \in {"doOk", "doErr"}
  /\ FinishRequestCall(r)

NextLimit ==
  \/ \E r \in 1..Len(reqs), in \in FaultInputs \cup FinalInputs : CycleDo(r, in)
  \/ \E r \in 1..Len(reqs) : CycleFinish(r)

SpecLimit == InitLimit /\ [][NextLimit]_vars

(***************************************************************************)
(* One Do on a new client, followed through all its redirects: the         *)
(* redirect policy ends the chain, so these rounds need no bound.          *)
(***************************************************************************)
DoFresh(in) ==
  /\ ~call.active
  /\ lc[1] = "new"
  /\ DoAdvance(1, FirstRound(1, in))

DoFollow(in) ==
  /\ call.active
  /\ DoAdvance(call.req, NextRound(in))

NextRedirect ==
  \/ \E in \in HopInputs : DoFresh(in)
  \/ \E in \in HopInputs : DoFollow(in)
  \/ \E r \in 1..Len(reqs) : FinishRequestCall(r)

SpecRedirect == Init /\ [][NextRedirect]_vars

(***************************************************************************)
(* h.FinishRequest(r) by caller p, one locked section at a time, so that   *)
(* the calls of several callers interleave.  First h.GetConn(r) under the  *)
(* read lock: without a binding the call returns the error.                *)
(***************************************************************************)
FinishLookup(p, r) ==
  LET g == GetConn(World, r)
  IN /\ fins[p].pc = "idle"
     /\ IF g.err # ErrNil
        THEN /\ lc' = [lc EXCEPT ![r] = IF @ \in {"fin", "fin2"} THEN "fin2" ELSE "finErr"]
             /\ UNCHANGED fins
        ELSE /\ fins' = [fins EXCEPT ![p] = [pc |-> "got", req |-> r, conn |-> g.conn]]
             /\ UNCHANGED lc
     /\ UNCHANGED << cachedConns, connMap, ReadWriteTimeout, MaxConnsPerHost, reqs, closed,
                     deadline, now, failedConns, call, rounds, sawTimeout, trVars >>

(***************************************************************************)
(* h.Lock(); delete(h.connMap, req); h.Unlock().                           *)
(***************************************************************************)
FinishUnbind(p) ==
  /\ fins[p].pc = "got"
  /\ connMap' = unbind(World, fins[p].req).connMap
  /\ fins' = [fins EXCEPT ![p].pc = "unbound"]
  /\ UNCHANGED << cachedConns, ReadWriteTimeout, MaxConnsPerHost, reqs, closed, deadline, now,
                  lc, failedConns, call, rounds, sawTimeout, trVars >>

(***************************************************************************)
(* The rest of FinishRequest: close the connection if it is marked, else   *)
(* put it in the cache under the request's canonical address; return.      *)
(***************************************************************************)
FinishPut(p) ==
  LET r == fins[p].req
      res == IF fins[p].conn.shouldClose
             THEN [h |-> connClose(World, fins[p].conn.Conn), err |-> ErrNil]
             ELSE cacheConn(World, canonicalAddr(reqs[r].Host, reqs[r].Scheme),
                            fins[p].conn.Conn)
  IN /\ fins[p].pc = "unbound"
     /\ cachedConns' = res.h.cachedConns
     /\ closed' = res.h.closed
     /\ fins' = [fins EXCEPT ![p] = NoFinish]
     /\ lc' = [lc EXCEPT ![r] = IF @ \in {"fin", "fin2"} THEN "fin2"
                                ELSE IF res.err = ErrNil THEN "fin" ELSE "finErr"]
     /\ UNCHANGED << connMap, ReadWriteTimeout, MaxConnsPerHost, reqs, deadline, now,
                     failedConns, call, rounds, sawTimeout, trVars >>

(***************************************************************************)
(* h.GetConn(r) from another goroutine, at any time.                       *)
(***************************************************************************)
GetConnAnyTime(r) ==
  /\ GetConn(World, r).err \in {ErrNil, ErrNotInMap}
  /\ UNCHANGED vars

(***************************************************************************)
(* One client used from several goroutines: Do and GetConn calls, and      *)
(* FinishRequest calls that interleave with them and with each other.      *)
(***************************************************************************)
NextConcurrent ==
  \/ \E r \in 1..Len(reqs), in \in HopInputs : DoCall(r, in)
  \/ \E in \in HopInputs : DoHop(in)
  \/ \E r \in 1..Len(reqs) : GetConnAnyTime(r)
  \/ \E p \in Finishers, r \in 1..Len(reqs) : FinishLookup(p, r)
  \/ \E p \in Finishers : FinishUnbind(p)
  \/ \E p \in Finishers : FinishPut(p)

SpecConcurrent == Init /\ [][NextConcurrent]_vars

(***************************************************************************)
(* The deadline queue (package pqueue): a queue of items ordered by        *)
(* Priority, the absolute deadline.  Index(q, it) is -1 when it is not in  *)
(* the queue.  PeekAndShift(q, max) is the set of results the call may     *)
(* give: a front item whose Priority is at most max, taken off the queue,  *)
(* or no item and the queue as it was.                                     *)
(***************************************************************************)
Index(q, it) == IF it \in q THEN 0 ELSE -1
Push(q, it) == q \cup {it}
Remove(q, it) == q \ {it}
Fronts(q) == { it \in q : \A o \in q : it.Priority <= o.Priority }

PeekAndShift(q, max) ==
  IF q = {} \/ \A it \in Fronts(q) : it.Priority > max
  THEN { [item |-> NoItem, q |-> q] }
  ELSE { [item |-> it, q |-> Remove(q, it)] : it \in Fronts(q) }

Panicked == \E c \in Closers : closers[c] = "panic"

(***************************************************************************)
(* t.lazyStart, run once by t.starter: the queue is made, and with a       *)
(* RequestTimeout the exit channel is made and the worker started.         *)
(* WorkerWanted is the condition of the start.  OnceDo is sync.Once: Do    *)
(* runs its function unless a Do has been done, and the callers that come  *)
(* meanwhile wait for it; OnceDoUnguarded runs the function at every call. *)
(***************************************************************************)
WorkerWanted(rt) == rt > 0

OnceDoUnguarded(once) == TRUE
OnceDo(once) == ~once.done

lazyStart ==
  /\ starter' = [done |-> TRUE, runs |-> starter.runs + 1]
  /\ requests' = {}
  /\ IF WorkerWanted(RequestTimeout)
     THEN /\ exitChan' = "open"
          /\ wk' = [wk EXCEPT !.pc = "select", !.n = @ + 1]
     ELSE UNCHANGED << exitChan, wk >>

(***************************************************************************)
(* t.RoundTrip(r) up to the item: the lazy start, then the absolute        *)
(* deadline absTs of the request.  DeadlineNow forgets the timeout.  The   *)
(* requests are numbered in the order of their dispatch.                   *)
(***************************************************************************)
DeadlineNow(t, timeout) == t
absTs(t, timeout) == t + timeout

RoundTripStart(r) ==
  /\ ~Panicked
  /\ trips[r].pc = "new"
  /\ \A q \in 1..(r - 1) : trips[q].pc # "new"
  /\ IF OnceDo(starter) THEN lazyStart ELSE UNCHANGED << starter, requests, exitChan, wk >>
  /\ trips' = [trips EXCEPT ![r] = [pc |-> "stamped", at |-> clock,
                 item |-> [Value |-> r, Priority |-> absTs(clock, RequestTimeout)]]]
  /\ UNCHANGED << RequestTimeout, closers, clock, cancelled, hcVars >>

(***************************************************************************)
(* heap.Push(&t.requests, item) under the lock; the request is then with   *)
(* the http.Transport.                                                     *)
(***************************************************************************)
RoundTripPush(r) ==
  /\ ~Panicked
  /\ trips[r].pc = "stamped"
  /\ requests' = Push(requests, trips[r].item)
  /\ trips' = [trips EXCEPT ![r].pc = "inflight"]
  /\ UNCHANGED << RequestTimeout, starter, exitChan, wk, closers, clock, cancelled, hcVars >>

(***************************************************************************)
(* The removal of a request's item when the request is over: only if the   *)
(* item is still in the queue.                                             *)
(***************************************************************************)
removeItem(q, it) == IF Index(q, it) # -1 THEN Remove(q, it) ELSE q

(***************************************************************************)
(* t.transport.RoundTrip(r) returns: with an error the item is removed and *)
(* the error returned; with a response the body is wrapped and the item    *)
(* stays until the body is closed.                                         *)
(***************************************************************************)
RoundTripReturn(r, ok) ==
  /\ ~Panicked
  /\ trips[r].pc = "inflight"
  /\ IF ok
     THEN /\ trips' = [trips EXCEPT ![r].pc = "body"]
          /\ UNCHANGED requests
     ELSE /\ trips' = [trips EXCEPT ![r].pc = "failed"]
          /\ requests' = removeItem(requests, trips[r].item)
  /\ UNCHANGED << RequestTimeout, starter, exitChan, wk, closers, clock, cancelled, hcVars >>

(***************************************************************************)
(* bodyCloseInterceptor.Close.                                             *)
(***************************************************************************)
BodyClose(r) ==
  /\ ~Panicked
  /\ trips[r].pc = "body"
  /\ trips' = [trips EXCEPT ![r].pc = "closed"]
  /\ requests' = removeItem(requests, trips[r].item)
  /\ UNCHANGED << RequestTimeout, starter, exitChan, wk, closers, clock, cancelled, hcVars >>

(***************************************************************************)
(* The worker: at its select the ticker fires and the time is sampled.     *)
(***************************************************************************)
WorkerTick ==
  /\ ~Panicked
  /\ wk.pc = "select"
  /\ wk' = [wk EXCEPT !.pc = "drain", !.now = clock]
  /\ UNCHANGED << RequestTimeout, starter, exitChan, requests, closers, trips, clock,
                  cancelled, hcVars >>

(***************************************************************************)
(* One turn of the inner loop, under the lock: the front item if it is     *)
(* due, else back to the select (and the sampled time is out of scope).    *)
(***************************************************************************)
WorkerPeek ==
  /\ ~Panicked
  /\ wk.pc = "drain"
  /\ \E res \in PeekAndShift(requests, wk.now) :
       /\ requests' = res.q
       /\ wk' = IF res.item = NoItem THEN [wk EXCEPT !.pc = "select", !.now = 0]
                ELSE [wk EXCEPT !.pc = "cancel", !.item = res.item]
  /\ UNCHANGED << RequestTimeout, starter, exitChan, closers, trips, clock, cancelled,
                  hcVars >>

(***************************************************************************)
(* t.transport.CancelRequest(req) for the item taken, and round the inner  *)
(* loop again.  nextTickAfterCancel leaves the loop after one item.        *)
(***************************************************************************)
nextTickAfterCancel(w) == [w EXCEPT !.pc = "select", !.item = NoItem, !.now = 0]
nextItemAfterCancel(w) == [w EXCEPT !.pc = "drain", !.item = NoItem]

WorkerCancel ==
  /\ ~Panicked
  /\ wk.pc = "cancel"
  /\ cancelled' = cancelled \cup {wk.item.Value}
  /\ wk' = nextItemAfterCancel(wk)
  /\ UNCHANGED << RequestTimeout, starter, exitChan, requests, closers, trips, clock,
                  hcVars >>

(***************************************************************************)
(* After the exit label: ticker.Stop(), close(t.exitChan), and the         *)
(* goroutine is over.                                                      *)
(***************************************************************************)
WorkerExit ==
  /\ ~Panicked
  /\ wk.pc = "exit"
  /\ wk' = [wk EXCEPT !.pc = "exited"]
  /\ exitChan' = "closed"
  /\ UNCHANGED << RequestTimeout, starter, requests, closers, trips, clock, cancelled,
                  hcVars >>

(***************************************************************************)
(* t.Close() by caller c: with no channel it returns at once.  The read of *)
(* t.exitChan is not synchronised with lazyStart; it sees the channel or   *)
(* nil as the calls interleave.  The callers are named in the order of     *)
(* their calls.                                                            *)
(***************************************************************************)
CloseCall(c) ==
  /\ ~Panicked
  /\ closers[c] = "idle"
  /\ c = "c2" => closers["c1"] # "idle"
  /\ closers' = [closers EXCEPT ![c] = IF exitChan # "nil" THEN "send" ELSE "returned"]
  /\ UNCHANGED << RequestTimeout, starter, exitChan, requests, wk, trips, clock, cancelled,
                  hcVars >>

(***************************************************************************)
(* t.exitChan <- 1 on the unbuffered channel: it panics on a closed        *)
(* channel, and is else taken by the worker at its select, which goes to   *)
(* exit, or by another Close waiting in its receive.                       *)
(***************************************************************************)
CloseSend(c) ==
  /\ ~Panicked
  /\ closers[c] = "send"
  /\ \/ /\ exitChan = "closed"
        /\ closers' = [closers EXCEPT ![c] = "panic"]
        /\ UNCHANGED wk
     \/ /\ exitChan = "open"
        /\ wk.pc = "select"
        /\ closers' = [closers EXCEPT ![c] = "recv"]
        /\ wk' = [wk EXCEPT !.pc = "exit"]
     \/ /\ exitChan = "open"
        /\ \E d \in Closers \ {c} :
             /\ closers[d] = "recv"
             /\ closers' = [closers EXCEPT ![c] = "recv", ![d] = "returned"]
        /\ UNCHANGED wk
  /\ UNCHANGED << RequestTimeout, starter, exitChan, requests, trips, clock, cancelled,
                  hcVars >>

(***************************************************************************)
(* <-t.exitChan once the worker has closed the channel; Close returns.     *)
(***************************************************************************)
CloseRecv(c) ==
  /\ ~Panicked
  /\ closers[c] = "recv"
  /\ exitChan = "closed"
  /\ closers' = [closers EXCEPT ![c] = "returned"]
  /\ UNCHANGED << RequestTimeout, starter, exitChan, requests, wk, trips, clock, cancelled,
                  hcVars >>

(***************************************************************************)
(* Time passes.                                                            *)
(***************************************************************************)
ClockTick ==
  /\ ~Panicked
  /\ clock < MaxClock
  /\ clock' = clock + 1
  /\ UNCHANGED << RequestTimeout, starter, exitChan, requests, wk, closers, trips,
                  cancelled, hcVars >>

(***************************************************************************)
(* A Transport with or without a RequestTimeout, its callers and its       *)
(* worker.                                                                 *)
(***************************************************************************)
InitTransport ==
  \E rt \in RequestTimeouts :
    /\ NewTransport(rt)
    /\ cachedConns = <<>> /\ connMap = <<>> /\ reqs = UserRequests
    /\ ReadWriteTimeout = DefaultReadWriteTimeout
    /\ MaxConnsPerHost = DefaultMaxConnsPerHost
    /\ closed = {} /\ deadline = <<>> /\ now = 0
    /\ lc = [r \in 1..Len(UserRequests) |-> "new"]
    /\ failedConns = {} /\ call = NoDo /\ rounds = 0 /\ sawTimeout = "no"
    /\ fins = [p \in Finishers |-> NoFinish]

WorkerStep == WorkerTick \/ WorkerPeek \/ WorkerCancel \/ WorkerExit

NextTransport ==
  \/ \E r \in TripRequests : RoundTripStart(r)
  \/ \E r \in TripRequests : RoundTripPush(r)
  \/ \E r \in TripRequests, ok \in BOOLEAN : RoundTripReturn(r, ok)
  \/ \E r \in TripRequests : BodyClose(r)
  \/ WorkerTick
  \/ WorkerPeek
  \/ WorkerCancel
  \/ WorkerExit
  \/ \E c \in Closers : CloseCall(c)
  \/ \E c \in Closers : CloseSend(c)
  \/ \E c \in Closers : CloseRecv(c)
  \/ ClockTick

SpecTransport == InitTransport /\ [][NextTransport]_vars

(***************************************************************************)
(* A Transport on which Close is not called, with a worker that keeps      *)
(* being scheduled: its ticker fires every 25 ms and nothing but the       *)
(* queue's lock, held for one operation at a time, can hold it up.         *)
(***************************************************************************)
NextUnclosed ==
  \/ \E r \in TripRequests : RoundTripStart(r)
  \/ \E r \in TripRequests : RoundTripPush(r)
  \/ \E r \in TripRequests, ok \in BOOLEAN : RoundTripReturn(r, ok)
  \/ \E r \in TripRequests : BodyClose(r)
  \/ WorkerTick
  \/ WorkerPeek
  \/ WorkerCancel
  \/ ClockTick

SpecTransportFair ==
  /\ InitTransport
  /\ [][NextUnclosed]_vars
  /\ WF_vars(WorkerTick)
  /\ WF_vars(WorkerPeek)
  /\ WF_vars(WorkerCancel)

(***************************************************************************)
(* A client whose caller's requests name their host in each of the forms   *)
(* of a URL's authority: a name or a bracketed IPv6 literal, without a     *)
(* port, with one, or with a colon and the port left empty.  Every Do      *)
(* looks the canonical address of its request up in the cache.             *)
(***************************************************************************)
AddrHosts ==
  { <<"a">>, <<"a", ":", "80">>, <<"a", ":">>,
    <<"[", ":", ":", "1", "]">>, <<"[", ":", ":", "1", "]", ":", "80">>,
    <<"[", ":", ":", "1", "]", ":">> }

AddrRequests ==
  { [Host |-> host, Scheme |-> <<sch>>, Close |-> FALSE] :
      host \in AddrHosts, sch \in {"http", "https"} }

InitAddr ==
  /\ NewTransport(0)
  /\ reqs \in [1..Len(UserRequests) -> AddrRequests]
  /\ cachedConns = <<>> /\ connMap = <<>>
  /\ ReadWriteTimeout = DefaultReadWriteTimeout
  /\ MaxConnsPerHost = DefaultMaxConnsPerHost
  /\ closed = {} /\ deadline = <<>> /\ now = 0
  /\ lc = [r \in 1..Len(UserRequests) |-> "new"]
  /\ failedConns = {} /\ call = NoDo /\ rounds = 0 /\ sawTimeout = "no"
  /\ fins = [p \in Finishers |-> NoFinish]

NextAddr ==
  \/ \E r \in 1..Len(reqs), in \in FinalInputs : DoCall(r, in)
  \/ \E r \in 1..Len(reqs) : FinishRequestCall(r)

SpecAddr == InitAddr /\ [][NextAddr]_vars

(***************************************************************************)
(* A client whose requests go to one address and get their responses, so   *)
(* that several connections are idle at once and are taken again.          *)
(***************************************************************************)
ReuseRequests ==
  << [Host |-> <<"a">>, Scheme |-> <<"http">>, Close |-> FALSE],
     [Host |-> <<"a", ":", "80">>, Scheme |-> <<"http">>, Close |-> FALSE] >>

InitReuse ==
  /\ NewTransport(0)
  /\ reqs = ReuseRequests
  /\ cachedConns = <<>> /\ connMap = <<>>
  /\ ReadWriteTimeout = DefaultReadWriteTimeout
  /\ MaxConnsPerHost = DefaultMaxConnsPerHost
  /\ closed = {} /\ deadline = <<>> /\ now = 0
  /\ lc = [r \in 1..Len(ReuseRequests) |-> "new"]
  /\ failedConns = {} /\ call = NoDo /\ rounds = 0 /\ sawTimeout = "no"
  /\ fins = [p \in Finishers |-> NoFinish]

DoTake(r, in) ==
  /\ ~call.active
  /\ r \notin DOMAIN connMap
  /\ rounds < MaxTakes
  /\ DoAdvance(r, FirstRound(r, in))

NextReuse ==
  \/ \E r \in 1..Len(reqs), in \in FinalInputs : DoTake(r, in)
  \/ \E r \in 1..Len(reqs) : FinishRequestCall(r)

SpecReuse == InitReuse /\ [][NextReuse]_vars

(***************************************************************************)
(* Properties.                                                             *)
(***************************************************************************)
Requests == 1..Len(reqs)
NotBound(r) == GetConn(World, r).err = ErrNotInMap
AddrOfReq(r) == canonicalAddr(reqs[r].Host, reqs[r].Scheme)
Outstanding(a) == IF a \in DOMAIN cachedConns THEN cachedConns[a].outstanding ELSE 0
WireErrors == {ErrWrite, ErrRead, ErrTimeout}
NoExchange == {ErrTooMany, ErrDial, ErrHandshake}

(***************************************************************************)
(* C1: GetConn(req) returns "connection not in map" for a request that was *)
(* never dispatched and again after FinishRequest(req); it succeeds only   *)
(* between a successful Do(req) and FinishRequest(req).                    *)
(***************************************************************************)
C1_GetConnOnlyAfterSuccessfulDo ==
  \A r \in Requests :
    /\ lc[r] = "new" => NotBound(r)
    /\ lc[r] \in {"fin", "fin2"} => NotBound(r)
    /\ (~call.active /\ ~NotBound(r)) => lc[r] = "doOk"

(***************************************************************************)
(* C2: of two FinishRequest calls in sequence on a successfully dispatched *)
(* request, the first succeeds and unbinds; the second returns "connection *)
(* not in map" and changes neither the registry nor an idle list nor which *)
(* connections are closed.                                                 *)
(***************************************************************************)
C2_FinishRequestTwice ==
  [][\A r \in Requests :
       (lc[r] \in {"doOk", "fin"} /\ FinishRequestCall(r)) =>
         /\ lc[r] = "doOk" =>
              /\ FinishRequest(World, r).err = ErrNil
              /\ r \notin DOMAIN connMap'
              /\ lc'[r] = "fin"
         /\ lc[r] = "fin" =>
              /\ FinishRequest(World, r).err = ErrNotInMap
              /\ lc'[r] = "fin2"
              /\ UNCHANGED << connMap, cachedConns, closed >>]_vars

C2_FinishedTwice ==
  \E r \in Requests : lc[r] = "fin2" /\ r \notin DOMAIN connMap /\ Idle # {}

(***************************************************************************)
(* C3: FinishRequest(req) after a successful Do(req) whose connection is   *)
(* not marked shouldClose puts the connection in the idle list of req's    *)
(* canonical address, and the next checkConnCache for that address returns *)
(* that same connection.                                                   *)
(***************************************************************************)
C3_NextTakeReturnsSameConn ==
  [][\A r \in Requests :
       (/\ lc[r] = "doOk"
        /\ r \in DOMAIN connMap
        /\ ~connMap[r].shouldClose
        /\ FinishRequestCall(r)) =>
         LET a == AddrOfReq(r)
             c == connMap[r].Conn
         IN /\ a \in DOMAIN cachedConns'
            /\ c \in IdleOf(cachedConns')
            /\ checkConnCache(World', a).c = c]_vars

(***************************************************************************)
(* C4: a connection whose exchange failed with an I/O error (write, read,  *)
(* deadline) is in no idle list afterwards.                                *)
(***************************************************************************)
C4_FailedConnNeverIdle == failedConns \cap Idle = {}

(***************************************************************************)
(* C5: when the wire exchange of a round fails (write, read, deadline),    *)
(* the round's request is unbound and its connection closed when the round *)
(* returns; after a dial or handshake error the request is not bound and   *)
(* the connection not cached.                                              *)
(***************************************************************************)
C5Round(st) ==
  /\ st.rt.err \in WireErrors =>
       /\ st.rt.req \notin DOMAIN connMap'
       /\ st.rt.conn \in closed'
  /\ st.rt.err \in {ErrDial, ErrHandshake} =>
       /\ st.rt.req \notin DOMAIN connMap'
       /\ st.rt.conn \notin IdleOf(cachedConns')

C5_FailedExchangeUnbindsAndCloses ==
  [][\A in \in HopInputs :
       /\ \A r \in Requests :
            (lc'[r] = "doErr" /\ DoCall(r, in)) => C5Round(FirstRound(r, in))
       /\ (call.active /\ lc'[call.req] = "doErr" /\ DoHop(in)) => C5Round(NextRound(in))]_vars

(***************************************************************************)
(* C6: checkConnCache(addr) fails with "too many outstanding conns" exactly*)
(* when the outstanding count of addr is >= MaxConnsPerHost, whatever      *)
(* MaxConnsPerHost >= 0 is.                                                *)
(***************************************************************************)
C6_TakeFailsAtMax ==
  \A a \in DOMAIN cachedConns \cup { AddrOfReq(r) : r \in Requests } :
    (checkConnCache(World, a).err = ErrTooMany) <=> (Outstanding(a) >= MaxConnsPerHost)

(***************************************************************************)
(* C7: after every cycle of Do(req) and FinishRequest(req) on fresh        *)
(* requests without redirects, the registry is empty and every idle list   *)
(* holds at most MaxConnsPerHost connections.                              *)
(***************************************************************************)
C7_CyclesLeaveNothing ==
  BetweenCycles =>
    /\ DOMAIN connMap = {}
    /\ \A a \in DOMAIN cachedConns : Len(cachedConns[a].dl) <= MaxConnsPerHost

(***************************************************************************)
(* C8: every exchange sets the connection's deadline to its start plus     *)
(* ReadWriteTimeout, on a dialed and on a reused connection alike; Do      *)
(* fails when the response head arrives after the deadline and succeeds    *)
(* when it arrives before, also after an earlier request has timed out.    *)
(***************************************************************************)
C8Round(r, st, in) ==
  st.rt.err \notin NoExchange =>
    /\ deadline'[st.rt.conn] = now + ReadWriteTimeout
    /\ in.fault = "none" =>
         /\ now + in.delay > now + ReadWriteTimeout => lc'[r] = "doErr" /\ st.err = ErrTimeout
         /\ now + in.delay < now + ReadWriteTimeout => lc'[r] = "doOk"

C8_DeadlineEachExchange ==
  [][\A in \in TimedInputs : \A r \in Requests :
       DoCall(r, in) => C8Round(r, FirstRound(r, in), in)]_vars

C8_SucceededAfterTimeout ==
  /\ sawTimeout = "then_ok"
  /\ \E r \in DOMAIN connMap :
       /\ lc[r] = "doOk"
       /\ deadline[connMap[r].Conn] > ReadWriteTimeout

(***************************************************************************)
(* C9: a successful Do that sees resp.Close or req.Close marks the bound   *)
(* connection shouldClose and leaves it open and bound; FinishRequest then *)
(* closes it, keeps it out of the idle lists, and the next checkConnCache  *)
(* for the address returns another connection: an idle one if the address  *)
(* has one, else none, so that RoundTrip dials.                            *)
(***************************************************************************)
C9Marked(r, st) ==
  (st.done /\ st.err = ErrNil /\ (st.resp.Close \/ reqs[r].Close)) =>
    /\ r \in DOMAIN connMap'
    /\ connMap'[r].shouldClose
    /\ connMap'[r].Conn \notin closed'

C9Finish(r, dials) ==
  (r \in DOMAIN connMap /\ connMap[r].shouldClose /\ FinishRequestCall(r)) =>
    LET c == connMap[r].Conn
        t == checkConnCache(World', AddrOfReq(r))
    IN /\ c \in closed'
       /\ c \notin IdleOf(cachedConns')
       /\ r \notin DOMAIN connMap'
       /\ t.c # c
       /\ t.err = ErrNil
       /\ dials => t.c = NilConn

C9Step(dials) ==
  /\ \A r \in DOMAIN connMap' : connMap'[r].shouldClose => connMap'[r].Conn \notin closed'
  /\ \A in \in FinalInputs :
       /\ \A r \in Requests :
            (lc'[r] = "doOk" /\ DoCall(r, in)) => C9Marked(r, FirstRound(r, in))
       /\ (call.active /\ lc'[call.req] = "doOk" /\ DoHop(in)) =>
            C9Marked(call.req, NextRound(in))
  /\ \A r \in Requests : C9Finish(r, dials)

C9_CloseAtFinishRequest == [][C9Step(FALSE)]_vars

C9_ClosedByFinishRequest ==
  \E c \in closed \ failedConns : \E r \in DOMAIN connMap :
    /\ lc[r] = "doOk"
    /\ connMap[r].Conn > c

(***************************************************************************)
(* C9 as stated: ... so a following request to the same address uses a     *)
(* freshly dialed connection.                                              *)
(***************************************************************************)
C9_NextRequestDials == [][C9Step(TRUE)]_vars

(***************************************************************************)
(* C10: with the default policy a Do redirected 3 times goes on and        *)
(* returns the final response; the 4th redirect ends it with "Stopped      *)
(* after 3 redirects".  DefaultRedirectPolicy(req, via) is an error        *)
(* exactly when via holds more than 3 requests.                            *)
(***************************************************************************)
ViaOfLen(n) == [i \in 1..n |-> 1]

C10Round(r, cur, st, in) ==
  /\ in \in RedirInputs =>
       IF Len(call.via) + 1 > 3
       THEN st.err = ErrRedirects /\ lc'[r] = "doErr" /\ ~call'.active
       ELSE st.err = ErrNil /\ call'.active /\ Len(call'.via) = Len(call.via) + 1
  /\ (in.fault = "none" /\ in.resp = "ok") =>
       /\ lc'[r] = "doOk"
       /\ st.resp.kind = "ok"
       /\ st.resp.Request = cur

C10_ThreeRedirects ==
  [][/\ \A n \in 0..5 :
          (DefaultRedirectPolicy(NoReq, ViaOfLen(n)) # ErrNil) <=> (n > 3)
     /\ \A in \in HopInputs :
          /\ DoFresh(in) => C10Round(1, 1, FirstRound(1, in), in)
          /\ DoFollow(in) => C10Round(call.req, call.cur, NextRound(in), in)]_vars

C10_FourthRedirectStopped ==
  /\ lc[1] = "doErr"
  /\ Len(reqs) = Len(UserRequests) + 4
  /\ Cardinality(DOMAIN connMap) = 4

(***************************************************************************)
(* C11: the "hc_" marker is never visible to user code: whenever the       *)
(* redirect policy is called, on a chain of any length, neither the new    *)
(* request nor a request of via has a scheme starting with "hc_", and the  *)
(* request of a response that Do returns has none either.                  *)
(***************************************************************************)
C11Round(st) ==
  /\ \A sch \in st.seen : ~HasPrefixHc(sch)
  /\ (st.done /\ st.resp.kind # "none") => ~HasPrefixHc(reqs'[st.resp.Request].Scheme)

C11_MarkerHidden ==
  [][\A in \in FinalInputs \cup RedirInputs :
       /\ DoFresh(in) => C11Round(FirstRound(1, in))
       /\ DoFollow(in) => C11Round(NextRound(in))]_vars

C11_ReturnedAfterRedirects ==
  /\ lc[1] = "doOk"
  /\ Len(reqs) = Len(UserRequests) + 3
  /\ \A r \in DOMAIN connMap : ~HasPrefixHc(reqs[r].Scheme)

(***************************************************************************)
(* C12: Transport.Close blocks until the worker has exited: once a Close   *)
(* has returned, the worker goroutine has terminated (or was never         *)
(* started), so no CancelRequest call is made afterwards, whatever is in   *)
(* the queue and wherever the worker was when Close was called.            *)
(***************************************************************************)
C12_CloseWaitsForWorker ==
  \A c \in Closers : closers[c] = "returned" => wk.pc \in {"off", "exited"}

(***************************************************************************)
(* C13: with RequestTimeout > 0, a request whose item is in the queue when *)
(* its absolute deadline has passed is in the end taken from the queue and *)
(* cancelled by the worker, or completes first and takes its item away     *)
(* itself, as long as the worker is scheduled and Close is not called; and *)
(* the worker leaves its inner loop for the next tick only when no item of *)
(* the queue has a deadline at or before the time of the tick.             *)
(***************************************************************************)
Due(r) ==
  /\ RequestTimeout > 0
  /\ trips[r].item \in requests
  /\ trips[r].item.Priority <= clock

Completed(r) == trips[r].pc \in {"closed", "failed"}

C13_DueCancelledOrCompleted ==
  /\ \A r \in TripRequests : Due(r) ~> (r \in cancelled \/ Completed(r))
  /\ [][(wk.pc \in {"drain", "cancel"} /\ wk'.pc = "select")
          => \A it \in requests' : it.Priority > wk.now]_vars

C13_SecondDueItemTaken ==
  /\ wk.pc = "cancel"
  /\ cancelled = TripRequests \ {wk.item.Value}
  /\ \A r \in TripRequests : trips[r].item.Priority <= wk.now

(***************************************************************************)
(* C13 as stated: every request whose item is in the queue when its        *)
(* deadline passes is in the end cancelled by the worker.                  *)
(***************************************************************************)
C13_DueCancelled ==
  \A r \in TripRequests : Due(r) ~> r \in cancelled

(***************************************************************************)
(* C14: the outstanding counter of every address is never negative,        *)
(* whatever takes (checkConnCache), puts (cacheConn), Do and FinishRequest *)
(* calls have been made.                                                   *)
(***************************************************************************)
C14_OutstandingNotNegative ==
  \A a \in DOMAIN cachedConns : cachedConns[a].outstanding >= 0

C14_TakenAndPut ==
  \E a \in DOMAIN cachedConns :
    /\ cachedConns[a].dl # <<>>
    /\ \E r \in Requests : lc[r] = "fin" /\ AddrOfReq(r) = a

(***************************************************************************)
(* C15: RoundTrip records the binding of the request to its connection     *)
(* before the request is written: while the wire exchange runs, GetConn of *)
(* the request succeeds and gives the connection of the exchange.          *)
(***************************************************************************)
C15Round(st) ==
  st.rt.wired => /\ st.rt.during.err = ErrNil
                 /\ st.rt.during.conn.Conn = st.rt.conn

C15_BoundDuringExchange ==
  [][\A in \in HopInputs :
       /\ \A r \in Requests : DoCall(r, in) => C15Round(FirstRound(r, in))
       /\ DoHop(in) => C15Round(NextRound(in))]_vars

C15_ExchangesRun ==
  /\ failedConns # {}
  /\ \E r \in Requests : lc[r] = "doOk" /\ GetConn(World, r).err = ErrNil

(***************************************************************************)
(* C16: in every reachable state the outstanding counter of an address is  *)
(* the number of connections checked out for that address: taken from the  *)
(* idle list or dialed, and not yet returned to the cache or closed.       *)
(***************************************************************************)
CheckedOut(a) ==
  { connMap[r].Conn : r \in { x \in DOMAIN connMap : AddrOfReq(x) = a } } \ closed

C16_OutstandingCountsCheckedOut ==
  \A r \in Requests : Outstanding(AddrOfReq(r)) = Cardinality(CheckedOut(AddrOfReq(r)))

(***************************************************************************)
(* C17: single ownership under every interleaving of concurrent Do,        *)
(* GetConn and FinishRequest calls on one client: no connection is at once *)
(* in an idle list and bound in the registry, none is twice in the idle    *)
(* lists, and none is bound to two requests.                               *)
(***************************************************************************)
IdleEntries ==
  UNION { { <<a, i>> : i \in 1..Len(cachedConns[a].dl) } : a \in DOMAIN cachedConns }

C17_SingleOwnership ==
  /\ \A r \in DOMAIN connMap : connMap[r].Conn \notin Idle
  /\ \A e, f \in IdleEntries :
       cachedConns[e[1]].dl[e[2]] = cachedConns[f[1]].dl[f[2]] => e = f
  /\ \A r, q \in DOMAIN connMap : connMap[r].Conn = connMap[q].Conn => r = q

(***************************************************************************)
(* C18: no request stays in the registry after it has completed: once      *)
(* Do(req) has returned and FinishRequest(req) has been called, the        *)
(* registry has no binding for any request that went through RoundTrip     *)
(* during that Do, the requests of its redirect hops included.             *)
(***************************************************************************)
C18_NothingBoundAfterFinish ==
  lc[1] \in {"fin", "fin2", "finErr"} => \A r \in Requests : NotBound(r)

(***************************************************************************)
(* C19: for every request bound by RoundTrip, FinishRequest computes the   *)
(* canonical address RoundTrip used for the cache lookup, whether the      *)
(* request's scheme still has the "hc_" marker or not, so that the put     *)
(* (cacheConn) of FinishRequest never fails with the unknown-address       *)
(* error.                                                                  *)
(***************************************************************************)
AddrAtRoundTrip(r) == canonicalAddr(reqs[r].Host, AddHc(StripHc(reqs[r].Scheme)))

C19_FinishRequestFindsAddress ==
  \A r \in DOMAIN connMap :
    /\ AddrOfReq(r) = AddrAtRoundTrip(r)
    /\ cacheConn(World, AddrOfReq(r), connMap[r].Conn).err = ErrNil
    /\ FinishRequest(World, r).err = ErrNil

C19_BoundWithAndWithoutMarker ==
  \E r, q \in DOMAIN connMap :
    /\ HasPrefixHc(reqs[r].Scheme)
    /\ ~HasPrefixHc(reqs[q].Scheme)
    /\ ~hasPort(reqs[q].Host)

(***************************************************************************)
(* C20: no request is cancelled before its deadline: the worker calls      *)
(* CancelRequest for a request only if the time at which the request was   *)
(* dispatched plus RequestTimeout is at or before the time sampled at the  *)
(* current tick; and with RequestTimeout zero no worker runs and no        *)
(* request is ever cancelled.                                              *)
(***************************************************************************)
C20_NoEarlyCancel ==
  /\ [][WorkerCancel =>
          /\ trips[wk.item.Value].at + RequestTimeout <= wk.now
          /\ wk.now <= clock]_vars
  /\ [](RequestTimeout = 0 => wk.pc = "off" /\ cancelled = {})

C20_CancelledAtDeadline ==
  /\ wk.pc = "drain"
  /\ \E r \in cancelled : trips[r].at + RequestTimeout = wk.now

(***************************************************************************)
(* C21: once a dispatched request has completed (RoundTrip returned an     *)
(* error, or the response body was closed) and its item is out of the      *)
(* queue, the worker never calls CancelRequest for that request, however   *)
(* the worker and the completion interleave; and the completion path does  *)
(* not remove again an item that the worker has already taken.             *)
(***************************************************************************)
C21_NoCancelAfterCompletion ==
  [][/\ WorkerCancel => ~Completed(wk.item.Value)
     /\ \A r \in TripRequests :
          ((BodyClose(r) \/ RoundTripReturn(r, FALSE)) /\ trips[r].item \notin requests)
            => requests' = requests]_vars

(***************************************************************************)
(* C22: however the first RoundTrip calls on one Transport interleave,     *)
(* lazyStart has run exactly once before any of them pushes onto the       *)
(* queue, and there is at most one worker goroutine, started only when     *)
(* RequestTimeout > 0.                                                     *)
(***************************************************************************)
C22_OneLazyStartOneWorker ==
  /\ starter.runs <= 1
  /\ (\E r \in TripRequests : trips[r].pc # "new") => starter.runs = 1
  /\ requests # {} => starter.runs = 1
  /\ wk.n <= 1
  /\ wk.n = 1 => RequestTimeout > 0
  /\ (starter.runs = 1 /\ RequestTimeout > 0) => wk.n = 1

C22_TwoFirstCallsOneWorker ==
  /\ \A r \in TripRequests : trips[r].pc = "stamped"
  /\ requests = {}
  /\ wk.n = 1

(***************************************************************************)
(* C23: canonicalAddr(host, scheme): for every host without an explicit    *)
(* port the result is the host with ":80" for the plaintext scheme and     *)
(* with ":443" for the encrypted one; for every host with an explicit port *)
(* (a bracketed IPv6 literal followed by a port included) the result is    *)
(* the host unchanged; the result always carries an explicit port.  An     *)
(* explicit port is a colon outside the brackets followed by digits.       *)
(***************************************************************************)
PortDigits == {"80", "443"}

ExplicitPort(s) ==
  /\ Len(s) >= 2
  /\ s[Len(s)] \in PortDigits
  /\ s[Len(s) - 1] = ":"
  /\ LastIndex(s, "]") < Len(s) - 2

SchemePort(scheme) ==
  IF StripHc(scheme) = <<"http">> THEN <<":", "80">> ELSE <<":", "443">>

C23Canonical(host, scheme) ==
  LET res == canonicalAddr(host, scheme)
  IN /\ ~ExplicitPort(host) => res = host \o SchemePort(scheme)
     /\ ExplicitPort(host) => res = host
     /\ ExplicitPort(res)

C23_CanonicalAddr ==
  /\ \A r \in Requests :
       /\ C23Canonical(reqs[r].Host, reqs[r].Scheme)
       /\ C23Canonical(reqs[r].Host, AddHc(StripHc(reqs[r].Scheme)))
  /\ \A a \in DOMAIN cachedConns : ExplicitPort(a)

(***************************************************************************)
(* C24: idle-connection reuse is LIFO: when several idle connections are   *)
(* cached for one address, the take (checkConnCache) of a Do returns the   *)
(* one that FinishRequest returned to the cache most recently, the last    *)
(* one pushed on the list.                                                 *)
(***************************************************************************)
C24Take(r, st) ==
  LET dl == cachedConns[AddrOfReq(r)].dl
  IN (AddrOfReq(r) \in DOMAIN cachedConns /\ Len(dl) >= 2) => st.rt.conn = dl[Len(dl)]

C24_ReuseIsLIFO ==
  [][\A r \in Requests, in \in FinalInputs :
       DoTake(r, in) => C24Take(r, FirstRound(r, in))]_vars

(***************************************************************************)
(* C25: when two callers call FinishRequest at the same time for the same  *)
(* bound request, one call succeeds and the other returns the "not bound"  *)
(* error: never are both past the lookup with the request's connection,    *)
(* and the connection is put in the idle list at most once or closed at    *)
(* most once, however the calls interleave.                                *)
(***************************************************************************)
C25_OneFinishRequestWins ==
  /\ \A p, q \in Finishers :
       (p # q /\ fins[p].pc # "idle" /\ fins[q].pc # "idle") => fins[p].req # fins[q].req
  /\ \A a \in DOMAIN cachedConns : \A i, j \in 1..Len(cachedConns[a].dl) :
       cachedConns[a].dl[i] = cachedConns[a].dl[j] => i = j
  /\ \A p \in Finishers :
       (fins[p].pc = "unbound" /\ fins[p].conn.shouldClose) => fins[p].conn.Conn \notin closed

(***************************************************************************)
(* C26: Transport.Close always returns normally, without a panic and       *)
(* without blocking for ever: called before any request was dispatched or  *)
(* with RequestTimeout zero (no channel, no worker) it returns at once,    *)
(* and called a second time after an earlier Close has stopped the worker  *)
(* it does not panic.                                                      *)
(***************************************************************************)
C26_CloseReturnsNormally ==
  \A c \in Closers :
    /\ closers[c] # "panic"
    /\ exitChan = "nil" => closers[c] \in {"idle", "returned"}

====
